---- MODULE Spec2Model ----
(***************************************************************************)
(* Model of dashboard.py, the Streamlit reorder-report dashboard.          *)
(*                                                                         *)
(* The script is one handler: Streamlit runs it top to bottom once when    *)
(* the page is opened and once more after every widget interaction.  One   *)
(* run is one action here (FirstRun, Interact).                            *)
(*                                                                         *)
(* Data.  A cell is a record [na, v]: na says the value is missing (NaN,   *)
(* NaT), v is the value.  Text cells hold a string; Days Until Out and     *)
(* Suggested Order Qty hold a number counted in HALVES (v = 2 * value), so *)
(* that fractional values and rounding ties exist; dates are day numbers   *)
(* (day 0 is 2026-11-01).  A table is [cols, rows]: the column names in    *)
(* order and the rows, each a function from column name to cell.  A row's  *)
(* index label is its position in the loaded table.                        *)
(***************************************************************************)
EXTENDS Integers, Sequences, FiniteSets, TLC

VARIABLES
    file_exists,   \* reorder_report.xlsx is on disk
    report,        \* the table stored in reorder_report.xlsx
    buffer_days,   \* the buffer_days argument of add_suggested_date
    clock,         \* the calendar date datetime.now() returns
    widgets,       \* the values the sidebar widgets hold (session state)
    df,            \* the global df after load_data and add_suggested_date
    base_date,     \* add_suggested_date's local `base_date` of the last run
    today,         \* add_suggested_date's local `today` of the last run
    filtered,      \* the global `filtered`
    kpi,           \* total_items, need_reorder, avg_days, total_qty
    shown_cols,    \* the columns of the displayed detail table
    csv,           \* the table written by filtered.to_csv
    out,           \* the st.* elements rendered by the last run, in order
    pc,            \* "start", "done", "stopped" (st.stop) or "exception"
    interactions   \* widget interactions so far

vars == <<file_exists, report, buffer_days, clock, widgets, df, base_date, today,
          filtered, kpi, shown_cols, csv, out, pc, interactions>>

----------------------------------------------------------------------------
(* Bounds of the model *)

MaxRows == 2

MaxInteractions == 2

MaxClock == 1

(* add_suggested_date's default buffer and the value line 52 passes *)
DefaultBuffer == 5

----------------------------------------------------------------------------
(* Cells *)

NaN == [na |-> TRUE, v |-> 0]

NaText == [na |-> TRUE, v |-> ""]

Num(halves) == [na |-> FALSE, v |-> halves]

Text(s) == [na |-> FALSE, v |-> s]

Date(d) == [na |-> FALSE, v |-> d]

Range(s) == {s[i] : i \in DOMAIN s}

HasCol(data, c) == c \in Range(data.cols)

TextCols == {"Customer", "Item", "Item #", "Status"}

HalfCols == {"Days Until Out", "Suggested Order Qty"}

(* The missing value of a column: NaN for an object or float column, NaT
   for a datetime column (both print differently, see Str). *)
Missing(c) == IF c \in TextCols THEN NaText ELSE NaN

----------------------------------------------------------------------------
(* Rounding *)

(* numpy's rint (Series.round) and Python's round(): the nearest integer of
   num/den (den > 0), a tie going to the even neighbour. *)
RoundHalfEven(num, den) ==
    LET q == num \div den
        r == num % den
    IN  IF 2 * r < den THEN q
        ELSE IF 2 * r > den THEN q + 1
        ELSE IF q % 2 = 0 THEN q ELSE q + 1

(* Python's int(): truncation toward zero (den > 0). *)
IntTrunc(num, den) ==
    IF num >= 0 THEN num \div den ELSE -((-num) \div den)

----------------------------------------------------------------------------
(* add_suggested_date *)

(* line 36: Series.round().fillna(0).astype(int) of one Days Until Out cell *)
days_rounded(cell) == IF cell.na THEN 0 ELSE RoundHalfEven(cell.v, 2)

(* line 45, written without the clip: a mutant of ClipToToday *)
NoClip(d, today_) == d

(* line 45: df_copy.loc[date < today, date] = today *)
ClipToToday(d, today_) == IF d < today_ THEN today_ ELSE d

(* lines 39-41: days_rounded - buffer_days *)
Offset(cell, buffer) == days_rounded(cell) - buffer

(* lines 30-50.  base_date_ and today_ are the two readings of
   datetime.now().date() (lines 38 and 44). *)
add_suggested_date(data, buffer, base_date_, today_) ==
    IF ~HasCol(data, "Days Until Out") THEN data
    ELSE [cols |-> IF HasCol(data, "Suggested Reorder Date") THEN data.cols
                   ELSE Append(data.cols, "Suggested Reorder Date"),
          rows |-> [i \in DOMAIN data.rows |->
                      [c \in Range(data.cols) \cup {"Suggested Reorder Date"} |->
                         IF c = "Suggested Reorder Date"
                         THEN Date(ClipToToday(
                                  base_date_ + Offset(data.rows[i]["Days Until Out"], buffer),
                                  today_))
                         ELSE data.rows[i][c]]]]

----------------------------------------------------------------------------
(* Textual representation: DataFrame.astype(str), line 101 *)

Digits == "0123456789"

RECURSIVE NatStr(_)
NatStr(n) ==
    IF n < 10 THEN SubSeq(Digits, n + 1, n + 1)
    ELSE NatStr(n \div 10) \o SubSeq(Digits, (n % 10) + 1, (n % 10) + 1)

IntStr(n) == IF n < 0 THEN "-" \o NatStr(-n) ELSE NatStr(n)

(* read_excel gives a numeric column the dtype int64 when every cell is a
   whole number and float64 when a cell is fractional or missing. *)
ColIsFloat(data, c) ==
    \E i \in DOMAIN data.rows : data.rows[i][c].na \/ data.rows[i][c].v % 2 = 1

(* str() of a number held in halves: "7" in an int64 column, "7.0" or "2.5"
   in a float64 column. *)
HalfStr(h, isFloat) ==
    LET mag  == IF h < 0 THEN -h ELSE h
        sign == IF h < 0 THEN "-" ELSE ""
    IN  IF isFloat
        THEN sign \o NatStr(mag \div 2) \o (IF mag % 2 = 1 THEN ".5" ELSE ".0")
        ELSE sign \o NatStr(mag \div 2)

(* str() of a date: ISO format; day 0 is 2026-11-01 and the model's dates
   stay within that month. *)
DateStr(d) ==
    "2026-11-" \o (IF d + 1 < 10 THEN "0" ELSE "") \o IntStr(d + 1)

(* astype(str) of the cell of column c in row i of data *)
Str(data, i, c) ==
    LET cell == data.rows[i][c]
    IN  IF c \in TextCols THEN (IF cell.na THEN "nan" ELSE cell.v)
        ELSE IF c \in HalfCols
             THEN (IF cell.na THEN "nan" ELSE HalfStr(cell.v, ColIsFloat(data, c)))
        ELSE IF cell.na THEN "NaT" ELSE DateStr(cell.v)

UpperCase == "ABCDEFGHIJKLMNOPQRSTUVWXYZ"

LowerCase == "abcdefghijklmnopqrstuvwxyz"

LowerCh(ch) ==
    IF \E k \in 1..Len(UpperCase) : SubSeq(UpperCase, k, k) = ch
    THEN LET k == CHOOSE k \in 1..Len(UpperCase) : SubSeq(UpperCase, k, k) = ch
         IN  SubSeq(LowerCase, k, k)
    ELSE ch

RECURSIVE Lower(_)
Lower(s) ==
    IF s = "" THEN ""
    ELSE LowerCh(SubSeq(s, 1, 1)) \o Lower(SubSeq(s, 2, Len(s)))

(* s contains q as a substring *)
Contains(s, q) ==
    \E k \in 0..(Len(s) - Len(q)) : SubSeq(s, k + 1, k + Len(q)) = q

(* line 101: Series.str.contains(query, case=False).  The queries of the
   model are letters and digits only, for which the regular expression
   `query` matches exactly the strings that contain it. *)
StrContains(s, query) == Contains(Lower(s), Lower(query))

----------------------------------------------------------------------------
(* Inputs: the reports the file may hold *)

AllCols == {"Customer", "Item", "Item #", "Status", "Days Until Out",
            "Suggested Order Qty", "Last Due"}

MkRow(cust, item, status, days, qty, due) ==
    [c \in AllCols |->
        CASE c = "Customer"            -> cust
          [] c = "Item"                -> item
          [] c = "Item #"              -> item
          [] c = "Status"              -> status
          [] c = "Days Until Out"      -> days
          [] c = "Suggested Order Qty" -> qty
          [] c = "Last Due"            -> due]

(* The rows a report is made of.  The first two are the rows of the
   documented example (2 and 7 days until out, quantities 10 and 5); the
   others carry a fractional Days Until Out (2.5), a fractional quantity and
   missing cells in every nullable column. *)
Catalogue ==
    << MkRow(Text("A"), Text("X1"), Text("Reorder Soon"), Num(4),  Num(20), Date(3)),
       MkRow(Text("B"), Text("Y2"), Text("OK"),           Num(14), Num(10), Date(5)),
       MkRow(NaText,    Text("X1"), Text("Reorder Soon"), Num(5),  Num(5),  NaN),
       MkRow(Text("A"), NaText,     NaText,               NaN,     NaN,     Date(3)) >>

(* The column layouts a report may have: every column; no Days Until Out;
   and no Last Due, with "Item #" for "Item" and Days Until Out as the last
   column. *)
Schemas ==
    { <<"Customer", "Item", "Status", "Days Until Out", "Suggested Order Qty", "Last Due">>,
      <<"Customer", "Item", "Status", "Suggested Order Qty", "Last Due">>,
      <<"Customer", "Item #", "Status", "Suggested Order Qty", "Days Until Out">> }

Restrict(row, cols) == [c \in Range(cols) |-> row[c]]

RECURSIVE KeepTo(_, _)
(* the positions 1..n where mask is true, in increasing order *)
KeepTo(mask, n) ==
    IF n = 0 THEN <<>>
    ELSE IF mask[n] THEN Append(KeepTo(mask, n - 1), n) ELSE KeepTo(mask, n - 1)

(* The row lists of the reports: at most MaxRows rows of the catalogue, in
   catalogue order. *)
RowSeqs ==
    {LET keep == KeepTo([i \in DOMAIN Catalogue |-> i \in S], Len(Catalogue))
     IN  [k \in DOMAIN keep |-> Catalogue[keep[k]]] :
        S \in {T \in SUBSET DOMAIN Catalogue : Cardinality(T) <= MaxRows}}

Reports ==
    {[cols |-> cols, rows |-> [i \in DOMAIN rs |-> Restrict(rs[i], cols)]] :
        cols \in Schemas, rs \in RowSeqs}

NoTable == [cols |-> <<>>, rows |-> <<>>]

(* The inputs of add_suggested_date taken alone: one-column tables over
   Days Until Out values -1.5, 0, 0.5, 1.5, 2.5, 5, 5.5, 7 and missing, and a
   table without the column. *)
DaysCells == {NaN} \cup {Num(h) : h \in {-3, 0, 1, 3, 5, 10, 11, 14}}

DaysTables ==
    {[cols |-> <<"Days Until Out">>, rows |-> rs] :
        rs \in UNION {[1..n -> [{"Days Until Out"} -> DaysCells]] : n \in 0..MaxRows}}
    \cup {[cols |-> <<"Customer">>, rows |-> <<[c \in {"Customer"} |-> Text("A")]>>]}

(* The buffer_days values add_suggested_date is applied to when taken
   alone: negative, zero, positive, the default. *)
BufferValues == {-2, 0, 3, DefaultBuffer}

(* The search strings the user may type *)
Queries == {"", "a", "OK"}

----------------------------------------------------------------------------
(* Series helpers *)

RECURSIVE SumTo(_, _)
(* f[1] + ... + f[n] *)
SumTo(f, n) == IF n = 0 THEN 0 ELSE SumTo(f, n - 1) + f[n]

SetMax(S) == CHOOSE x \in S : \A y \in S : y <= x

SetMin(S) == CHOOSE x \in S : \A y \in S : x <= y

(* Series.fillna("(Blank)") of a text cell; astype(str) leaves text as it is *)
Blank(cell) == IF cell.na THEN "(Blank)" ELSE cell.v

----------------------------------------------------------------------------
(* Sidebar filters, lines 65-105.  d is the global df, w the widget values. *)

(* The widget values before any interaction: both "select all" boxes
   checked, status "All", the slider and the date input untouched (they then
   return their default value), an empty search box, the bar chart on, no
   upload. *)
DefaultWidgets ==
    [sel_all_cust  |-> TRUE,  customers |-> {},
     sel_all_items |-> TRUE,  items     |-> {},
     status_choice |-> "All",
     days_slider   |-> [set |-> FALSE, v |-> 0],
     date_range    |-> [set |-> FALSE, vals |-> <<>>],
     query         |-> "",
     show_bar      |-> TRUE,
     uploaded      |-> FALSE]

Rows(d) == DOMAIN d.rows

(* line 65 *)
cust_values(d) == {Blank(d.rows[i]["Customer"]) : i \in Rows(d)}

(* line 67 *)
customers(d, w) == IF w.sel_all_cust THEN cust_values(d) ELSE w.customers

(* line 68 *)
mask_customer(d, w) ==
    [i \in Rows(d) |-> Blank(d.rows[i]["Customer"]) \in customers(d, w)]

(* line 70 *)
item_col(d) == IF HasCol(d, "Item") THEN "Item" ELSE "Item #"

(* lines 71-72 *)
item_values_str(d, w) ==
    {Blank(d.rows[i][item_col(d)]) : i \in {j \in Rows(d) : mask_customer(d, w)[j]}}

(* line 74 *)
items(d, w) == IF w.sel_all_items THEN item_values_str(d, w) ELSE w.items

(* line 75 *)
mask_item(d, w) ==
    [i \in Rows(d) |-> Blank(d.rows[i][item_col(d)]) \in items(d, w)]

(* line 82; the scalar True is the all-true Series it broadcasts to *)
mask_status(d, w) ==
    [i \in Rows(d) |->
        IF w.status_choice = "All" THEN TRUE
        ELSE Blank(d.rows[i]["Status"]) = w.status_choice]

(* the non-missing Days Until Out values, in halves *)
DaysValues(d) ==
    {d.rows[i]["Days Until Out"].v :
        i \in {j \in Rows(d) : ~d.rows[j]["Days Until Out"].na}}

(* line 84 raises: KeyError without the column, ValueError (int of NaN) when
   the column has no value at all *)
MaxDaysRaises(d) == ~HasCol(d, "Days Until Out") \/ DaysValues(d) = {}

(* line 84: int(df["Days Until Out"].max(skipna=True)) *)
max_days(d) == IntTrunc(SetMax(DaysValues(d)), 2)

(* line 85: the slider returns its default, max_days, until it is moved *)
days_slider(d, w) == IF w.days_slider.set THEN w.days_slider.v ELSE max_days(d)

(* line 86 *)
mask_days(d, w) ==
    [i \in Rows(d) |->
        LET cell == d.rows[i]["Days Until Out"]
        IN  (~cell.na /\ cell.v <= 2 * days_slider(d, w)) \/ cell.na]

(* the non-missing Last Due values *)
DueValues(d) ==
    {d.rows[i]["Last Due"].v : i \in {j \in Rows(d) : ~d.rows[j]["Last Due"].na}}

(* line 90 raises: with no Last Due value at all, min() and max() are NaN,
   which st.date_input rejects *)
DateInputRaises(d) == HasCol(d, "Last Due") /\ DueValues(d) = {}

(* line 90: st.date_input.  For a range Streamlit returns a TUPLE of the 0
   to 2 dates chosen so far, whatever container the default was given in;
   untouched, it returns the default (min_date, max_date). *)
date_range(d, w) ==
    [container |-> "tuple",
     vals      |-> IF w.date_range.set THEN w.date_range.vals
                   ELSE <<SetMin(DueValues(d)), SetMax(DueValues(d))>>]

(* line 91: isinstance(date_range, list) and len(date_range) == 2 *)
IsTwoList(dr) == dr.container = "list" /\ Len(dr.vals) = 2

(* lines 88-97 *)
mask_date(d, w) ==
    [i \in Rows(d) |->
        IF HasCol(d, "Last Due")
        THEN IF IsTwoList(date_range(d, w))
             THEN LET cell == d.rows[i]["Last Due"]
                      dr   == date_range(d, w)
                  IN  (~cell.na /\ dr.vals[1] <= cell.v /\ cell.v <= dr.vals[2])
                      \/ cell.na
             ELSE TRUE
        ELSE TRUE]

(* lines 100-103 for a non-empty query: DataFrame.apply(..., axis=1) with a
   function that returns a Series gives a DataFrame, one boolean per CELL *)
mask_search(d, w) ==
    [i \in Rows(d) |->
        [c \in Range(d.cols) |-> StrContains(Str(d, i, c), w.query)]]

----------------------------------------------------------------------------
(* Apply all masks, lines 110-117.  A view is [cols, idx, rows]: idx[k] is
   the index label (the position in df) of the view's k-th row. *)

(* lines 111-115: the AND of the five Series *)
SeriesMask(d, w) ==
    [i \in Rows(d) |->
        /\ mask_customer(d, w)[i]
        /\ mask_status(d, w)[i]
        /\ mask_item(d, w)[i]
        /\ mask_days(d, w)[i]
        /\ mask_date(d, w)[i]]

(* Index labels: the rows of df are labelled by integers (a RangeIndex), its
   columns by strings. *)
RowLabel(i) == [kind |-> "int", int |-> i, str |-> ""]

ColLabel(c) == [kind |-> "str", int |-> 0, str |-> c]

(* The value of a boolean Series at a label after alignment: the Series'
   own value where it has the label, otherwise NaN, which a logical
   operation takes as False. *)
SeriesAt(series, label) ==
    IF \E i \in DOMAIN series : RowLabel(i) = label
    THEN series[CHOOSE i \in DOMAIN series : RowLabel(i) = label]
    ELSE FALSE

(* line 116, Series & DataFrame: pandas aligns the Series' index with the
   frame's COLUMNS and ands column by column.  Given on the frame's own
   columns, the only ones df[...] reads. *)
AndSeriesFrame(series, frame, d) ==
    [i \in Rows(d) |->
        [c \in Range(d.cols) |-> SeriesAt(series, ColLabel(c)) /\ frame[i][c]]]

(* line 110 with a boolean Series: the rows where it is true *)
Select(d, mask) ==
    LET keep == KeepTo(mask, Len(d.rows))
    IN  [cols |-> d.cols,
         idx  |-> keep,
         rows |-> [k \in DOMAIN keep |-> d.rows[keep[k]]]]

(* line 110 with a boolean DataFrame: df[cond] is df.where(cond), every row
   kept and every cell whose condition is false made missing *)
Where(d, cond) ==
    [cols |-> d.cols,
     idx  |-> [i \in Rows(d) |-> i],
     rows |-> [i \in Rows(d) |->
                 [c \in Range(d.cols) |->
                    IF cond[i][c] THEN d.rows[i][c] ELSE Missing(c)]]]

(* lines 100-117: mask_search is the scalar True for an empty query *)
Filtered(d, w) ==
    IF w.query = ""
    THEN Select(d, SeriesMask(d, w))
    ELSE Where(d, AndSeriesFrame(SeriesMask(d, w), mask_search(d, w), d))

----------------------------------------------------------------------------
(* KPI cards, lines 122-135 *)

Present(f, c) == {k \in DOMAIN f.rows : ~f.rows[k][c].na}

(* Series.sum(skipna=True) of a numeric column, in halves *)
ColSum(f, c) ==
    SumTo([k \in DOMAIN f.rows |-> IF f.rows[k][c].na THEN 0 ELSE f.rows[k][c].v],
          Len(f.rows))

(* line 125 *)
need_reorder(f) ==
    Cardinality({k \in Present(f, "Status") : f.rows[k]["Status"].v = "Reorder Soon"})

(* A mutant of avg_days: the mean is taken over all rows, missing or not. *)
avg_days_all_rows(f) ==
    IF Present(f, "Days Until Out") = {} THEN 0
    ELSE RoundHalfEven(ColSum(f, "Days Until Out"), 2 * Len(f.rows))

(* line 126 *)
avg_days(f) ==
    IF Present(f, "Days Until Out") = {} THEN 0
    ELSE RoundHalfEven(ColSum(f, "Days Until Out"),
                       2 * Cardinality(Present(f, "Days Until Out")))

(* line 127 *)
total_qty(f) == RoundHalfEven(ColSum(f, "Suggested Order Qty"), 2)

(* filtered.empty *)
Empty(f) == Len(f.rows) = 0 \/ Len(f.cols) = 0

(* lines 123-130 *)
KPI(f) ==
    IF ~Empty(f)
    THEN [total_items  |-> Len(f.rows),
          need_reorder |-> need_reorder(f),
          avg_days     |-> avg_days(f),
          total_qty    |-> total_qty(f)]
    ELSE [total_items |-> 0, need_reorder |-> 0, avg_days |-> 0, total_qty |-> 0]

----------------------------------------------------------------------------
(* Detailed Records (lines 146-152) and the CSV export (line 193) *)

IndexOf(seq, x) == CHOOSE i \in DOMAIN seq : seq[i] = x

Without(seq, x) == SelectSeq(seq, LAMBDA y : y # x)

(* lines 147-149: pop Suggested Reorder Date and insert it right after Days
   Until Out; list.insert's position is evaluated before the pop *)
DisplayCols(cols) ==
    IF "Days Until Out" \in Range(cols) /\ "Suggested Reorder Date" \in Range(cols)
    THEN LET pos  == IndexOf(cols, "Days Until Out")
             rest == Without(cols, "Suggested Reorder Date")
             at   == IF pos > Len(rest) THEN Len(rest) ELSE pos
         IN  SubSeq(rest, 1, at) \o <<"Suggested Reorder Date">>
             \o SubSeq(rest, at + 1, Len(rest))
    ELSE cols

(* to_csv's text of one cell: empty for a missing value *)
CsvStr(cell, c, isFloat) ==
    IF cell.na THEN ""
    ELSE IF c \in TextCols THEN cell.v
    ELSE IF c \in HalfCols THEN HalfStr(cell.v, isFloat)
    ELSE DateStr(cell.v)

(* line 193: filtered.to_csv(index=False): the header, then one line per
   row, both in the order of filtered's columns *)
ToCsv(f, d) ==
    [header |-> f.cols,
     lines  |-> [k \in DOMAIN f.rows |->
                   [j \in DOMAIN f.cols |->
                      CsvStr(f.rows[k][f.cols[j]], f.cols[j],
                             f.cols[j] \in HalfCols
                               /\ (ColIsFloat(d, f.cols[j]) \/ ColIsFloat(f, f.cols[j])))]]]

----------------------------------------------------------------------------
(* One run of the script, lines 10-208 *)

(* line 19 *)
report_path == "reorder_report.xlsx"

EmptyView == [cols |-> <<>>, idx |-> <<>>, rows |-> <<>>]

NoKpi == [total_items |-> 0, need_reorder |-> 0, avg_days |-> 0, total_qty |-> 0]

NoCsv == [header |-> <<>>, lines |-> <<>>]

(* lines 177-186: the trend chart is drawn when Last Due is a datetime
   column (it has a value in df) and a row of filtered has a Last Due *)
TrendShown(f, d) ==
    /\ HasCol(f, "Last Due")
    /\ DueValues(d) # {}
    /\ Present(f, "Last Due") # {}

(* lines 57-82: what the run renders before line 84 *)
OutHead(w) ==
    <<"set_page_config", "title", "caption", "sidebar.header",
      "checkbox:Select All Customers">>
    \o (IF w.sel_all_cust THEN <<>> ELSE <<"multiselect:Customer">>)
    \o <<"checkbox:Select All Items">>
    \o (IF w.sel_all_items THEN <<>> ELSE <<"multiselect:Item">>)
    \o <<"radio:status">>

(* lines 85-105 *)
OutFilters(d) ==
    <<"slider:Max Days Until Out">>
    \o (IF HasCol(d, "Last Due") THEN <<"date_input:Last Due Range">> ELSE <<>>)
    \o <<"text_input:Search", "checkbox:Show bar chart">>

(* lines 122-208 *)
OutBody(f, d, w) ==
    <<"metrics", "subheader">>
    \o (IF ~Empty(f) THEN <<"dataframe">> ELSE <<"info">>)
    \o (IF ~Empty(f)
        THEN (IF w.show_bar THEN <<"bar_chart">> ELSE <<>>)
             \o <<"pie_chart">>
             \o (IF TrendShown(f, d) THEN <<"line_chart">> ELSE <<>>)
        ELSE <<"warning">>)
    \o <<"download_button", "file_uploader">>
    \o (IF w.uploaded THEN <<"success", "uploaded_dataframe">> ELSE <<>>)

(* A run that ends before filtered exists *)
Aborted(how, d, rendered) ==
    [pc |-> how, df |-> d, filtered |-> EmptyView, kpi |-> NoKpi,
     shown_cols |-> <<>>, csv |-> NoCsv, out |-> rendered]

(* A mutant of MissingFile: st.stop() is left out and the script goes on
   to the widgets. *)
MissingFileNoStop ==
    Aborted("done", NoTable,
            <<"set_page_config", "error:" \o report_path, "title", "file_uploader">>)

(* lines 20-23: st.error naming the path, then st.stop() *)
MissingFile ==
    Aborted("stopped", NoTable, <<"set_page_config", "error:" \o report_path>>)

(* line 193: the table handed to to_csv is filtered itself *)
ExportTable(f) == f

(* The whole script.  exists: the file is there; rpt: its table; buffer:
   the buffer_days of line 52; w: the widget values; t1, t2: the clock at
   lines 38 and 44. *)
Script(exists, rpt, buffer, w, t1, t2) ==
    IF ~exists THEN MissingFile
    ELSE LET d == add_suggested_date(rpt, buffer, t1, t2)
         IN  IF MaxDaysRaises(d)
             THEN Aborted("exception", d, OutHead(w) \o <<"exception">>)
             ELSE IF DateInputRaises(d)
             THEN Aborted("exception", d,
                          OutHead(w) \o <<"slider:Max Days Until Out", "exception">>)
             ELSE LET f == Filtered(d, w)
                  IN  [pc         |-> "done",
                       df         |-> d,
                       filtered   |-> f,
                       kpi        |-> KPI(f),
                       shown_cols |-> IF ~Empty(f) THEN DisplayCols(f.cols) ELSE <<>>,
                       csv        |-> ToCsv(ExportTable(f), d),
                       out        |-> OutHead(w) \o OutFilters(d) \o OutBody(f, d, w)]

----------------------------------------------------------------------------
(* Widget interactions.  The user changes one widget; Streamlit then runs
   the script again with the new widget values. *)

StatusOptions == {"All", "Reorder Soon", "OK"}

(* The values st.date_input can be left with: a single date (only the start
   picked so far) or a start and an end. *)
DateChoices(d) ==
    IF ~HasCol(d, "Last Due") THEN {}
    ELSE {<<s>> : s \in DueValues(d)}
         \cup {<<p[1], p[2]>> :
                 p \in {q \in DueValues(d) \X DueValues(d) : q[1] <= q[2]}}

(* A multiselect whose options changed is a new widget and starts from its
   default, the empty selection. *)
ResetItems(d, w, w2) ==
    IF item_values_str(d, w2) # item_values_str(d, w)
    THEN [w2 EXCEPT !.items = {}]
    ELSE w2

(* The widget values one interaction can lead to.  The widgets of lines
   66-105 exist once a run has passed them (pc = "done"). *)
OneChange(d, w) ==
    {ResetItems(d, w, [w EXCEPT !.sel_all_cust = ~@, !.customers = {}])}
    \cup {ResetItems(d, w, [w EXCEPT !.customers = S]) :
            S \in {T \in SUBSET cust_values(d) : ~w.sel_all_cust /\ T # w.customers}}
    \cup {[w EXCEPT !.sel_all_items = ~@, !.items = {}]}
    \cup {[w EXCEPT !.items = S] :
            S \in {T \in SUBSET item_values_str(d, w) : ~w.sel_all_items /\ T # w.items}}
    \cup {[w EXCEPT !.status_choice = c] : c \in StatusOptions \ {w.status_choice}}
    \cup {[w EXCEPT !.days_slider = [set |-> TRUE, v |-> x]] :
            x \in {y \in 0..max_days(d) : y # days_slider(d, w)}}
    \cup {[w EXCEPT !.date_range = [set |-> TRUE, vals |-> r]] :
            r \in {x \in DateChoices(d) : x # date_range(d, w).vals}}
    \cup {[w EXCEPT !.query = q] : q \in Queries \ {w.query}}
    \cup {[w EXCEPT !.show_bar = ~@]}
    \cup {[w EXCEPT !.uploaded = ~@]}

----------------------------------------------------------------------------
(* The state machine *)

(* The dates a second reading of the clock can give: the same date, or the
   next one when midnight passes in between. *)
ClockAfter(t) == {t} \cup {x \in {t + 1} : x <= MaxClock}

(* One run of the script with widget values w, the clock reading t1 at line
   38 and t2 at line 44. *)
Run(w, t1, t2) ==
    \E r \in {Script(file_exists, report, buffer_days, w, t1, t2)} :
    LET derived == file_exists /\ HasCol(report, "Days Until Out")
    IN  /\ pc' = r.pc
        /\ df' = r.df
        /\ filtered' = r.filtered
        /\ kpi' = r.kpi
        /\ shown_cols' = r.shown_cols
        /\ csv' = r.csv
        /\ out' = r.out
        /\ clock' = t2
        /\ base_date' = IF derived THEN t1 ELSE base_date
        /\ today' = IF derived THEN t2 ELSE today

Init ==
    /\ file_exists \in BOOLEAN
    /\ report \in (IF file_exists THEN Reports ELSE {NoTable})
    /\ buffer_days = DefaultBuffer
    /\ clock = 0
    /\ widgets = DefaultWidgets
    /\ df = NoTable
    /\ base_date = 0
    /\ today = 0
    /\ filtered = EmptyView
    /\ kpi = NoKpi
    /\ shown_cols = <<>>
    /\ csv = NoCsv
    /\ out = <<>>
    /\ pc = "start"
    /\ interactions = 0

(* The page is opened: the first run, every widget at its default. *)
FirstRun ==
    /\ pc = "start"
    /\ \E t2 \in ClockAfter(clock) : Run(DefaultWidgets, clock, t2)
    /\ UNCHANGED <<file_exists, report, buffer_days, widgets, interactions>>

(* The user changes one widget and the script runs again. *)
Interact ==
    /\ pc = "done"
    /\ interactions < MaxInteractions
    /\ \E w2 \in OneChange(df, widgets), t2 \in ClockAfter(clock) :
          /\ widgets' = w2
          /\ Run(w2, clock, t2)
    /\ interactions' = interactions + 1
    /\ UNCHANGED <<file_exists, report, buffer_days>>

Next == FirstRun \/ Interact

Spec == Init /\ [][Next]_vars

(* add_suggested_date taken alone: applied once to a table of DaysTables
   with a buffer of BufferValues. *)
InitDate ==
    /\ file_exists = TRUE
    /\ report \in DaysTables
    /\ buffer_days \in BufferValues
    /\ clock \in 0..MaxClock
    /\ widgets = DefaultWidgets
    /\ df = NoTable
    /\ base_date = 0
    /\ today = 0
    /\ filtered = EmptyView
    /\ kpi = NoKpi
    /\ shown_cols = <<>>
    /\ csv = NoCsv
    /\ out = <<>>
    /\ pc = "start"
    /\ interactions = 0

Derive ==
    /\ pc = "start"
    /\ \E t2 \in ClockAfter(clock) :
          /\ df' = add_suggested_date(report, buffer_days, clock, t2)
          /\ base_date' = clock
          /\ today' = t2
          /\ clock' = t2
    /\ pc' = "derived"
    /\ UNCHANGED <<file_exists, report, buffer_days, widgets, filtered, kpi,
                   shown_cols, csv, out, interactions>>

NextDate == Derive

SpecDate == InitDate /\ [][NextDate]_vars

----------------------------------------------------------------------------
(* Properties *)

Abs(x) == IF x < 0 THEN -x ELSE x

(* r is a nearest integer of num/den (den > 0); on a tie both neighbours are *)
IsNearest(r, num, den) == 2 * Abs(den * r - num) <= den

(* row i of df is in the filtered view, unaltered *)
InView(i) ==
    \E k \in DOMAIN filtered.rows :
        filtered.idx[k] = i /\ filtered.rows[k] = df.rows[i]

SRD(i) == df.rows[i]["Suggested Reorder Date"]

Derived == pc = "derived" /\ HasCol(report, "Days Until Out")

(* C1: after add_suggested_date has run on a table with a Days Until Out
   column, the result has one row per input row and every row's Suggested
   Reorder Date is present and not earlier than the date of the clock when
   the computation ends, whatever buffer_days is and whether Days Until Out
   is missing or not. *)
C1_DateNeverNullNeverPast ==
    Derived =>
        /\ HasCol(df, "Suggested Reorder Date")
        /\ Len(df.rows) = Len(report.rows)
        /\ \A i \in Rows(df) : ~SRD(i).na /\ SRD(i).v >= today /\ SRD(i).v >= clock

(* C1's case: a negative buffer, a row with a missing Days Until Out and a
   row whose date was clipped, in a computation during which midnight
   passed. *)
C1_Witness ==
    /\ Derived
    /\ buffer_days < 0
    /\ today > base_date
    /\ \E i \in Rows(df) : report.rows[i]["Days Until Out"].na
    /\ \E i \in Rows(df) :
          base_date + Offset(report.rows[i]["Days Until Out"], buffer_days) < today
          /\ SRD(i).v = today

(* C6: for every row with Days Until Out D and buffer B, the date is today +
   round(D) - B when round(D) - B >= 0 and today otherwise, round(D) being
   a nearest integer of D (0 for a missing D) and "today" one date for the
   whole table: a date the clock showed during the computation. *)
C6_DateIsTodayPlusOffset ==
    Derived =>
        \E t \in {base_date, today} :
            \A i \in Rows(df) :
                LET cell == report.rows[i]["Days Until Out"]
                IN  \E r \in -2..8 :
                       /\ IF cell.na THEN r = 0 ELSE IsNearest(r, cell.v, 2)
                       /\ SRD(i).v = IF r - buffer_days >= 0
                                     THEN t + r - buffer_days ELSE t

(* C2: with every widget at its default, the filtered view is the whole
   table. *)
C2_DefaultViewIsFullTable ==
    (pc = "done" /\ widgets = DefaultWidgets) =>
        /\ filtered.cols = df.cols
        /\ filtered.rows = df.rows

(* C3: the CSV export has the columns of the displayed detail table, in the
   displayed order (Suggested Reorder Date right after Days Until Out), and
   one line per filtered row. *)
C3_CsvInDisplayedOrder ==
    (pc = "done" /\ ~Empty(filtered)) =>
        /\ csv.header = shown_cols
        /\ Len(csv.lines) = Len(filtered.rows)

(* the report has rows and every column it has holds a value: nothing but
   an absent column can make it unusual *)
WellFilled(rpt) ==
    /\ Len(rpt.rows) > 0
    /\ \A c \in Range(rpt.cols) : \E i \in DOMAIN rpt.rows : ~rpt.rows[i][c].na

(* C4: when the report lacks Days Until Out or Last Due, the run completes
   (no exception), and without Days Until Out the table is left as loaded. *)
C4_AbsentColumnRunCompletes ==
    (/\ file_exists
     /\ pc # "start"
     /\ WellFilled(report)
     /\ (~HasCol(report, "Days Until Out") \/ ~HasCol(report, "Last Due"))) =>
        /\ pc = "done"
        /\ (~HasCol(report, "Days Until Out") => df = report)

(* the text of some cell of row i of df contains the query, whatever the
   case *)
RowMatches(i) ==
    \E c \in Range(df.cols) : StrContains(Str(df, i, c), widgets.query)

(* C5: with a non-empty search string a row is in the filtered view exactly
   when it passes the other criteria and the string occurs in the text of
   one of its cells: the search contributes one boolean per row. *)
C5_SearchIsOneBooleanPerRow ==
    (pc = "done" /\ widgets.query # "") =>
        \A i \in Rows(df) :
            InView(i) <=> (SeriesMask(df, widgets)[i] /\ RowMatches(i))

(* C7: once the user has chosen a range [start, end] for Last Due, no row
   whose Last Due lies outside the range is in the filtered view. *)
C7_DateRangeExcludesOutside ==
    (/\ pc = "done"
     /\ HasCol(df, "Last Due")
     /\ widgets.query = ""
     /\ widgets.date_range.set
     /\ Len(widgets.date_range.vals) = 2) =>
        \A i \in Rows(df) :
            InView(i) =>
                \/ df.rows[i]["Last Due"].na
                \/ /\ widgets.date_range.vals[1] <= df.rows[i]["Last Due"].v
                   /\ df.rows[i]["Last Due"].v <= widgets.date_range.vals[2]

(* the rows of the view with a value in column c *)
WithValue(c) == {k \in DOMAIN filtered.rows : ~filtered.rows[k][c].na}

RECURSIVE SetSum(_, _)
(* the sum over the rows K of the view of their values in column c *)
SetSum(K, c) ==
    IF K = {} THEN 0
    ELSE LET k == CHOOSE x \in K : TRUE
         IN  filtered.rows[k][c].v + SetSum(K \ {k}, c)

(* C8: Total Items is the number of rows of the view, Need Reorder the
   number of its rows whose Status is "Reorder Soon", Avg Days Until Out a
   nearest integer of the mean of the Days Until Out values present (0 when
   there is none), Total Suggested Qty a nearest integer of the sum of the
   Suggested Order Qty values present; all four are 0 for an empty view. *)
C8_KpiCards ==
    pc = "done" =>
        /\ kpi.total_items = Len(filtered.rows)
        /\ kpi.need_reorder =
              Cardinality({k \in DOMAIN filtered.rows :
                              filtered.rows[k]["Status"] = Text("Reorder Soon")})
        /\ LET K == WithValue("Days Until Out")
           IN  IF K = {} THEN kpi.avg_days = 0
               ELSE IsNearest(kpi.avg_days, SetSum(K, "Days Until Out"),
                              2 * Cardinality(K))
        /\ IsNearest(kpi.total_qty,
                     SetSum(WithValue("Suggested Order Qty"), "Suggested Order Qty"), 2)
        /\ (Len(filtered.rows) = 0 => kpi = NoKpi)

(* C8's case: a view of two rows, one needing reorder, the other without
   Days Until Out and without Suggested Order Qty. *)
C8_Witness ==
    /\ pc = "done"
    /\ kpi.total_items = 2
    /\ kpi.need_reorder = 1
    /\ kpi.avg_days > 0
    /\ kpi.total_qty > 0
    /\ Cardinality(WithValue("Days Until Out")) = 1
    /\ Cardinality(WithValue("Suggested Order Qty")) = 1

(* what a run renders or computes after the file check *)
AfterFileCheck ==
    {"title", "caption", "sidebar.header", "checkbox:Select All Customers",
     "multiselect:Customer", "checkbox:Select All Items", "multiselect:Item",
     "radio:status", "slider:Max Days Until Out", "date_input:Last Due Range",
     "text_input:Search", "checkbox:Show bar chart", "metrics", "subheader",
     "dataframe", "info", "bar_chart", "pie_chart", "line_chart", "warning",
     "download_button", "file_uploader", "success", "uploaded_dataframe",
     "exception"}

(* C9: without reorder_report.xlsx the run shows an error naming the path
   and halts there: the error is the last thing rendered, no table is
   loaded or derived, and no widget, metric, table, chart, export or upload
   element is rendered. *)
C9_MissingFileHalts ==
    (~file_exists /\ pc # "start") =>
        /\ pc = "stopped"
        /\ Len(out) > 0
        /\ out[Len(out)] = "error:" \o report_path
        /\ \A k \in DOMAIN out : out[k] \notin AfterFileCheck
        /\ df = NoTable
        /\ filtered = EmptyView
        /\ csv = NoCsv

(* C9's case: the file is absent and the run has ended. *)
C9_Witness == ~file_exists /\ pc = "stopped" /\ Len(out) = 2

(* C10: filtering leaves the table alone and yields a subset of its rows
   with the same columns: df still holds every loaded cell, and every row
   of the view is the row of df that its index label names. *)
C10_ViewIsSubsetOfTable ==
    pc = "done" =>
        /\ Len(df.rows) = Len(report.rows)
        /\ \A i \in Rows(df) : \A c \in Range(report.cols) :
              df.rows[i][c] = report.rows[i][c]
        /\ filtered.cols = df.cols
        /\ \A k \in DOMAIN filtered.rows :
              /\ filtered.idx[k] \in Rows(df)
              /\ filtered.rows[k] = df.rows[filtered.idx[k]]

====
